---------------------------- MODULE Spec2Model ----------------------------
(***************************************************************************)
(* Document ingestion and change detection of aonanj/tempproj:             *)
(*   src/ingestion/extract.py  hashing, text normalisation, PDF/DOCX text  *)
(*   src/routes/database.py    documents / chunks tables, upsert_document, *)
(*                             persist_chunk                               *)
(*   src/routes/corpus.py      the /corpus/add-doc upload handler          *)
(*                                                                         *)
(* A Python str is a sequence of one-character strings.  The four curly    *)
(* quotes are written LDQ, RDQ, LSQ, RSQ.                                  *)
(***************************************************************************)
EXTENDS Integers, Sequences, FiniteSets, TLC

VARIABLES
    \* _normalize applied twice
    nIn, nOut1, nOut2, nPc,
    \* extract_pdf_text: the open document, the page loop, its outputs
    pdfPages, pdfIdx, out_parts, ocrCalls, pdfRaw, pdfResult, pdfPc,
    \* the database: the documents and chunks tables (sets of rows), and the
    \* process-wide TOK_VER and SEG_VER
    documents, chunks, tokVer, segVer,
    \* history: the last upsert_document call, the last persist_chunk call and
    \* an earlier persist_chunk call
    upCall, lastPersist, memoPersist,
    \* add_doc: the upload folder, the uuid4 values handed out, the last request
    disk, nextUuid, addLast,
    \* a caller composing upsert_document and persist_chunk, and the text of
    \* each document's stored version
    ing, storedText,
    \* concurrent upsert_document calls: each connection's position, the text of
    \* the call that returned last per doc_id, whether calls ever overlapped
    calls, lastReturned, overlap

varsNorm == <<nIn, nOut1, nOut2, nPc>>
varsPdf == <<pdfPages, pdfIdx, out_parts, ocrCalls, pdfRaw, pdfResult, pdfPc>>
varsDb == <<documents, chunks, tokVer, segVer>>
varsHist == <<upCall, lastPersist, memoPersist>>
varsUpload == <<disk, nextUuid, addLast>>
varsIngest == <<ing, storedText>>
varsConc == <<calls, lastReturned, overlap>>
vars == <<varsNorm, varsPdf, varsDb, varsHist, varsUpload, varsIngest, varsConc>>

(***************************************************************************)
(* Characters                                                              *)
(***************************************************************************)
LDQ == "u201C"
RDQ == "u201D"
LSQ == "u2018"
RSQ == "u2019"
LF == "\n"
CR == "\r"
FF == "\f"

\* re's \w on a str pattern: letters, digits and the underscore.
IsWord(c) == c \in {"a", "b", "c", "d", "e", "f", "g", "i", "k", "l", "n", "o",
                    "p", "s", "t", "x", "U", "_",
                    "0", "1", "2", "3", "4", "5", "6", "7", "8", "9"}

\* str.strip() with no argument strips Unicode whitespace; these are the
\* whitespace characters of the model's alphabet.
IsSpace(c) == c \in {" ", "\n", "\r", "\f", "\t"}

\* A nullable value: None or Some(v).
None == <<>>
Some(v) == <<v>>

HexDigits == <<"0", "1", "2", "3", "4", "5", "6", "7",
               "8", "9", "a", "b", "c", "d", "e", "f">>

(***************************************************************************)
(* Bounds and input sets                                                   *)
(***************************************************************************)
\* A digest has DigestLen hexadecimal digits (64 in the program) and a
\* chunk_id holds the first PrefixLen of them (12 in the program).
DigestLen == 4
PrefixLen == 1
MaxNormLen == 7
MaxPages == 3
MaxVer == 2
MaxUploads == 2
NumConns == 2

StringsUpTo(alphabet, n) == UNION {[1..k -> alphabet] : k \in 0..n}

NormAlphabet == {"a", "-", LF, CR, LDQ}

SamplePages ==
    { [blocks |-> << <<0, 0, <<"a">> >> >>, ocr |-> <<"x">>],
      [blocks |-> << <<0, 1000, <<"b", LF>> >>, <<0, 4, <<"a">> >>,
                     <<0, 0, <<" ">> >> >>, ocr |-> <<>>],
      [blocks |-> <<>>, ocr |-> <<"c", LF>>],
      [blocks |-> << <<0, 0, <<" ", LF>> >> >>, ocr |-> <<>>] }

DocIds == {<<"d", "1">>, <<"d", "2">>}
Paths == {<<"u", "/", "p">>, <<"u", "/", "x">>}
MTimes == {15, 27}
DocTexts == {<<>>, <<"a">>, <<"a", "a">>, <<"a", "b">>}

\* "a" and "b" have digests with the same prefix, "aa" has another.
ChunkTexts == {<<"a">>, <<"b">>, <<"a", "a">>}
\* Texts a caller re-ingests; the second has two paragraphs.
IngestTexts == {<<"a">>, <<"a", LF, LF, "b">>}
Untitled == <<"U", "n", "t", "i", "t", "l", "e", "d">>

\* Uploaded files and the filenames they are sent under.
SampleFiles ==
    { [kind |-> "pdf", paragraphs |-> <<>>,
       pages |-> << [blocks |-> << <<0, 0, <<"a">> >> >>, ocr |-> <<>>] >>],
      [kind |-> "pdf", paragraphs |-> <<>>,
       pages |-> << [blocks |-> << <<0, 0, <<"b">> >> >>, ocr |-> <<>>] >>],
      [kind |-> "docx", paragraphs |-> << <<"a">>, <<"b">> >>, pages |-> <<>>],
      [kind |-> "doc", paragraphs |-> <<>>, pages |-> <<>>] }
PdfName == <<"a", ".", "p", "d", "f">>
Filenames ==
    { <<>>, <<"r">>, <<"a", ".">>, <<"a", ".", "t", "x", "t">>,
      PdfName, <<"a", ".", "P", "D", "F">>,
      <<"a", ".", "d", "o", "c">>, <<"a", ".", "d", "o", "c", "x">>,
      <<"a", ".", "p", "d", "f", ".", "t", "x", "t">> }
\* Each file under each filename; a request without the file part; a request
\* whose file cannot be saved.
Uploads ==
    [present : {TRUE}, filename : Filenames, file : SampleFiles, save_ok : {TRUE}]
    \cup [present : {FALSE}, filename : {<<>>}, file : {CHOOSE f \in SampleFiles : TRUE},
          save_ok : {TRUE}]
    \cup [present : {TRUE}, filename : {PdfName}, file : {CHOOSE f \in SampleFiles : TRUE},
          save_ok : {FALSE}]
Clock == {17}

\* page_s, page_e, section
Places == {<<1, 1, None>>, <<2, 3, Some(<<"s">>)>>}

(***************************************************************************)
(* Text Normalizer: extract.py _normalize                                  *)
(***************************************************************************)
\* s.replace("\r\n", "\n"): left to right, non-overlapping.
RECURSIVE ReplaceCRLF(_)
ReplaceCRLF(s) ==
    IF s = <<>> THEN <<>>
    ELSE IF Len(s) >= 2 /\ s[1] = CR /\ s[2] = LF
         THEN <<LF>> \o ReplaceCRLF(SubSeq(s, 3, Len(s)))
         ELSE <<s[1]>> \o ReplaceCRLF(Tail(s))

\* .replace("\r", "\n")
ReplaceCR(s) == [i \in 1..Len(s) |-> IF s[i] = CR THEN LF ELSE s[i]]

\* re.sub(r"[LDQ RDQ]", '"', s) then re.sub(r"[LSQ RSQ]", "'", s)
StraightenQuotes(s) ==
    [i \in 1..Len(s) |-> IF s[i] \in {LDQ, RDQ} THEN "\""
                         ELSE IF s[i] \in {LSQ, RSQ} THEN "'"
                         ELSE s[i]]

\* re.sub(r"(\w)-\n(\w)", r"\1\2", s): the scan resumes after the whole match,
\* so the second word character of a match cannot start the next match.
RECURSIVE DeHyphenate(_)
DeHyphenate(s) ==
    IF s = <<>> THEN <<>>
    ELSE IF Len(s) >= 4 /\ IsWord(s[1]) /\ s[2] = "-" /\ s[3] = LF /\ IsWord(s[4])
         THEN <<s[1], s[4]>> \o DeHyphenate(SubSeq(s, 5, Len(s)))
         ELSE <<s[1]>> \o DeHyphenate(Tail(s))

\* Length of the run of line feeds s starts with.
RECURSIVE NewlineRun(_)
NewlineRun(s) ==
    IF s # <<>> /\ s[1] = LF THEN 1 + NewlineRun(Tail(s)) ELSE 0

\* re.sub(r"\n{3,}", "\n\n", s): the quantifier is greedy.
RECURSIVE CollapseBreaks(_)
CollapseBreaks(s) ==
    IF s = <<>> THEN <<>>
    ELSE LET r == NewlineRun(s)
         IN IF r >= 3
            THEN <<LF, LF>> \o CollapseBreaks(SubSeq(s, r + 1, Len(s)))
            ELSE <<s[1]>> \o CollapseBreaks(Tail(s))

Normalize(s) ==
    CollapseBreaks(DeHyphenate(StraightenQuotes(ReplaceCR(ReplaceCRLF(s)))))

\* str(n) of a non-negative int, as the f-string formats TOK_VER and SEG_VER.
RECURSIVE DecimalStr(_)
DecimalStr(n) ==
    IF n < 10 THEN <<HexDigits[n + 1]>>
    ELSE DecimalStr(n \div 10) \o <<HexDigits[(n % 10) + 1]>>

\* A bug: the version tag leaves SEG_VER out.
VersionTagTokOnly(text, tok, seg) ==
    text \o <<"|", "t", "o", "k", "=">> \o DecimalStr(tok)

\* f"{text}|tok={TOK_VER}|seg={SEG_VER}"
VersionTag(text, tok, seg) ==
    text \o <<"|", "t", "o", "k", "=">> \o DecimalStr(tok)
         \o <<"|", "s", "e", "g", "=">> \o DecimalStr(seg)

(***************************************************************************)
(* Hasher: extract.py sha256_bytes, sha256_text                            *)
(*                                                                         *)
(* SHA-256 itself is not computed.  It is modelled by a byte-wise          *)
(* compression to DigestLen hexadecimal digits (64 in the program) that is *)
(* collision-free on the strings the model hashes (DigestCollisionFree     *)
(* below), which is what the program relies on.  Truncating a digest to a  *)
(* prefix is not collision-free, in the model as in the program.           *)
(***************************************************************************)
\* text.encode('utf-8'): the bytes of one character.
Utf8(c) ==
    CASE c = "\t" -> <<9>>   [] c = "\n" -> <<10>>  [] c = "\f" -> <<12>>
      [] c = "\r" -> <<13>>  [] c = " " -> <<32>>   [] c = "\"" -> <<34>>
      [] c = "'" -> <<39>>   [] c = "-" -> <<45>>   [] c = "." -> <<46>>
      [] c = "/" -> <<47>>   [] c = "0" -> <<48>>   [] c = "1" -> <<49>>
      [] c = "2" -> <<50>>   [] c = "3" -> <<51>>   [] c = "4" -> <<52>>
      [] c = "5" -> <<53>>   [] c = "6" -> <<54>>   [] c = "7" -> <<55>>
      [] c = "8" -> <<56>>   [] c = "9" -> <<57>>   [] c = ":" -> <<58>>
      [] c = "=" -> <<61>>   [] c = "U" -> <<85>>   [] c = "_" -> <<95>>
      [] c = "a" -> <<97>>   [] c = "b" -> <<98>>   [] c = "c" -> <<99>>
      [] c = "d" -> <<100>>  [] c = "e" -> <<101>>  [] c = "f" -> <<102>>
      [] c = "g" -> <<103>>  [] c = "i" -> <<105>>  [] c = "k" -> <<107>>
      [] c = "l" -> <<108>>  [] c = "n" -> <<110>>  [] c = "o" -> <<111>>
      [] c = "p" -> <<112>>  [] c = "s" -> <<115>>  [] c = "t" -> <<116>>
      [] c = "x" -> <<120>>  [] c = "|" -> <<124>>
      [] c = LDQ -> <<226, 128, 156>>  [] c = RDQ -> <<226, 128, 157>>
      [] c = LSQ -> <<226, 128, 152>>  [] c = RSQ -> <<226, 128, 153>>

RECURSIVE Encode(_)
Encode(text) == IF text = <<>> THEN <<>> ELSE Utf8(text[1]) \o Encode(Tail(text))

RECURSIVE Compress(_, _)
Compress(h, bytes) ==
    IF bytes = <<>> THEN h
    ELSE Compress((h * 31 + bytes[1] + 1) % (16 ^ DigestLen), Tail(bytes))

\* hexdigest(): most significant digit first, fixed width.
RECURSIVE ToHex(_, _)
ToHex(n, width) ==
    IF width = 0 THEN <<>>
    ELSE ToHex(n \div 16, width - 1) \o <<HexDigits[(n % 16) + 1]>>

sha256_bytes(bytes) == ToHex(Compress(7, bytes), DigestLen)

\* The strings the store is given, and their digests computed once.
HashedStrings ==
    DocTexts \cup ChunkTexts \cup IngestTexts \cup {Untitled}
    \cup {VersionTag(c, tok, seg) : c \in ChunkTexts, tok \in 1..MaxVer,
                                    seg \in 1..MaxVer}

Sha256Table == [t \in HashedStrings |-> sha256_bytes(Encode(t))]

sha256_text(text) ==
    IF text \in HashedStrings THEN Sha256Table[text]
    ELSE sha256_bytes(Encode(text))

(***************************************************************************)
(* Extractor: extract.py _blocks_text, _ocr_page, extract_pdf_text,        *)
(* extract_docx_text                                                       *)
(*                                                                         *)
(* A PDF is its sequence of pages; a page is [blocks, ocr]: the text       *)
(* blocks of its text layer, each <<x0, y0, text>> with coordinates in     *)
(* thousandths of a point, and the string pytesseract returns for the      *)
(* rasterised page.  A DOCX is its sequence of paragraph texts.            *)
(***************************************************************************)
\* str.strip()
RECURSIVE LStrip(_)
LStrip(s) == IF s # <<>> /\ IsSpace(s[1]) THEN LStrip(Tail(s)) ELSE s

RECURSIVE RStrip(_)
RStrip(s) ==
    IF s # <<>> /\ IsSpace(s[Len(s)]) THEN RStrip(SubSeq(s, 1, Len(s) - 1)) ELSE s

Strip(s) == RStrip(LStrip(s))

\* sep.join(parts)
RECURSIVE Join(_, _)
Join(parts, sep) ==
    IF parts = <<>> THEN <<>>
    ELSE IF Len(parts) = 1 THEN parts[1]
    ELSE parts[1] \o sep \o Join(Tail(parts), sep)

\* round(v, 2) of a coordinate given in thousandths: the nearest hundredth.
Round2(v) == (v + 5) \div 10

\* key=lambda b: (round(b[1], 2), round(b[0], 2)): y0 first, then x0.
BlockKeyLeq(b, c) ==
    \/ Round2(b[2]) < Round2(c[2])
    \/ Round2(b[2]) = Round2(c[2]) /\ Round2(b[1]) <= Round2(c[1])

\* list.sort is stable: a block goes after the blocks whose key is not greater.
RECURSIVE InsertBlock(_, _)
InsertBlock(sorted, b) ==
    IF sorted = <<>> THEN <<b>>
    ELSE IF BlockKeyLeq(sorted[1], b)
         THEN <<sorted[1]>> \o InsertBlock(Tail(sorted), b)
         ELSE <<b>> \o sorted

RECURSIVE SortBlocks(_)
SortBlocks(blocks) ==
    IF blocks = <<>> THEN <<>>
    ELSE InsertBlock(SortBlocks(SubSeq(blocks, 1, Len(blocks) - 1)),
                     blocks[Len(blocks)])

RECURSIVE StrippedParts(_)
StrippedParts(blocks) ==
    IF blocks = <<>> THEN <<>>
    ELSE LET t == Strip(blocks[1][3])
         IN (IF t # <<>> THEN <<t>> ELSE <<>>) \o StrippedParts(Tail(blocks))

blocks_text(page) == Join(StrippedParts(SortBlocks(page.blocks)), <<LF, LF>>)

ocr_page(page) == page.ocr

PageSeparator == <<LF, LF, FF, LF, LF>>

\* The body of the page loop: the page's entry of out_parts.
PageText(page) ==
    LET txt == Strip(blocks_text(page))
    IN IF txt = <<>> THEN Strip(ocr_page(page)) ELSE txt

extract_pdf_text(pages) ==
    Normalize(Strip(Join([i \in 1..Len(pages) |-> PageText(pages[i])],
                         PageSeparator)))

extract_docx_text(paragraphs) == Normalize(Join(paragraphs, <<LF>>))

(***************************************************************************)
(* Change-Detection Store: database.py upsert_document, persist_chunk      *)
(*                                                                         *)
(* A table is the set of its rows.  A nullable column holds None or        *)
(* Some(v).  mtime is a float: it is given in tenths of a second.          *)
(***************************************************************************)
TOK_VER == 1
SEG_VER == 1

\* int(mtime): truncation of a non-negative float.
IntOf(mtime) == mtime \div 10

\* A bug: the WHERE clause is lost and the first row of the table is read.
SelectFileHashAnyDoc(docs, doc_id) ==
    IF docs = {} THEN None ELSE Some((CHOOSE r \in docs : TRUE).file_hash)

\* SELECT file_hash FROM documents WHERE doc_id=?  ... fetchone()
SelectFileHash(docs, doc_id) ==
    LET rows == {r \in docs : r.doc_id = doc_id}
    IN IF rows = {} THEN None ELSE Some((CHOOSE r \in rows : TRUE).file_hash)

\* A bug: the early return is lost and every call rewrites the row.
NoChangeNever(row, file_hash) == FALSE

\* if row and row["file_hash"] == file_hash: return False
NoChange(row, file_hash) == row # None /\ row[1] = file_hash

\* A bug: INSERT OR IGNORE keeps the row a doc_id already has.
InsertOrIgnoreDocuments(docs, row) ==
    IF \E r \in docs : r.doc_id = row.doc_id THEN docs ELSE docs \cup {row}

\* REPLACE INTO documents(...): the row with the same PRIMARY KEY doc_id is
\* deleted and the new row inserted; title is not given and becomes NULL.
ReplaceIntoDocuments(docs, row) ==
    {r \in docs : r.doc_id # row.doc_id} \cup {row}

DocumentRow(doc_id, source_path, file_hash, mtime) ==
    [doc_id |-> doc_id, source_path |-> source_path, title |-> None,
     file_hash |-> file_hash, modified_at |-> IntOf(mtime)]

\* upsert_document: its return value and the table it leaves committed.
upsert_document(docs, doc_id, source_path, norm_text, mtime) ==
    LET file_hash == sha256_text(norm_text)
        row == SelectFileHash(docs, doc_id)
    IN IF NoChange(row, file_hash)
       THEN [changed |-> FALSE, documents |-> docs]
       ELSE [changed |-> TRUE,
             documents |-> ReplaceIntoDocuments(
                 docs, DocumentRow(doc_id, source_path, file_hash, mtime))]

\* f"{doc_id}:{chunk_hash[:12]}"
ChunkId(doc_id, chunk_hash) == doc_id \o <<":">> \o SubSeq(chunk_hash, 1, PrefixLen)

\* A bug: the table has neither its PRIMARY KEY nor its unique index, and
\* every call adds a row.
InsertChunkUnconstrained(tbl, row) == tbl \cup {row}

\* REPLACE INTO chunks(...): every row that conflicts with the new one on
\* PRIMARY KEY chunk_id or on the unique index idx_chunks_doc_hash
\* (doc_id, chunk_hash) is deleted, then the new row is inserted.
ReplaceIntoChunks(tbl, row) ==
    {r \in tbl : /\ r.chunk_id # row.chunk_id
                 /\ ~(r.doc_id = row.doc_id /\ r.chunk_hash = row.chunk_hash)}
    \cup {row}

\* persist_chunk under the version values tok, seg: what it returns and the
\* table it leaves committed.
persist_chunk(tbl, doc_id, text, page_s, page_e, section, tok, seg) ==
    LET chunk_hash == sha256_text(text)
        content_hash == sha256_text(VersionTag(text, tok, seg))
        chunk_id == ChunkId(doc_id, chunk_hash)
    IN [chunk_id |-> chunk_id, content_hash |-> content_hash,
        chunk_hash |-> chunk_hash,
        chunks |-> ReplaceIntoChunks(tbl,
            [chunk_id |-> chunk_id, doc_id |-> doc_id, page_start |-> page_s,
             page_end |-> page_e, section |-> section, chunk_hash |-> chunk_hash,
             content_hash |-> content_hash, text |-> text])]

(***************************************************************************)
(* Upload handler: corpus.py allowed_file, _get_text, add_doc              *)
(*                                                                         *)
(* An uploaded file is [kind, pages, paragraphs]: a PDF with its pages, a  *)
(* DOCX with its paragraphs, or a legacy binary DOC.                       *)
(***************************************************************************)
ALLOWED_EXTENSIONS == {<<"p", "d", "f">>, <<"d", "o", "c">>, <<"d", "o", "c", "x">>}

\* str.lower() of one character
Lower(c) ==
    CASE c = "P" -> "p" [] c = "D" -> "d" [] c = "F" -> "f" [] OTHER -> c

LowerStr(s) == [i \in 1..Len(s) |-> Lower(s[i])]

\* filename.rsplit('.', 1)[1], for a filename that holds a dot
RSplitExt(filename) ==
    LET last == CHOOSE i \in 1..Len(filename) :
                    /\ filename[i] = "."
                    /\ \A j \in (i + 1)..Len(filename) : filename[j] # "."
    IN SubSeq(filename, last + 1, Len(filename))

allowed_file(filename) ==
    /\ \E i \in 1..Len(filename) : filename[i] = "."
    /\ LowerStr(RSplitExt(filename)) \in ALLOWED_EXTENSIONS

\* str.endswith
EndsWith(s, suffix) ==
    /\ Len(s) >= Len(suffix)
    /\ SubSeq(s, Len(s) - Len(suffix) + 1, Len(s)) = suffix

\* os.path.join(upload_folder, doc_id)
UploadFolder == <<"u">>
PathJoin(dir, name) == dir \o <<"/">> \o name

\* str(uuid.uuid4()): a fresh string of hexadecimal digits (and dashes).
Uuid(n) == <<"d">> \o DecimalStr(n)

\* _get_text on the stored file: the extractor it runs, whether that raises
\* (the file is not of the extractor's format), and the text it returns.
get_text(file_path, content) ==
    IF EndsWith(file_path, <<".", "p", "d", "f">>)
    THEN [extractor |-> "pdf", raised |-> content.kind # "pdf",
          text |-> IF content.kind = "pdf" THEN extract_pdf_text(content.pages)
                   ELSE <<>>]
    ELSE IF \/ EndsWith(file_path, <<".", "d", "o", "c">>)
            \/ EndsWith(file_path, <<".", "d", "o", "c", "x">>)
    THEN [extractor |-> "docx", raised |-> content.kind # "docx",
          text |-> IF content.kind = "docx"
                   THEN extract_docx_text(content.paragraphs) ELSE <<>>]
    ELSE [extractor |-> "none", raised |-> FALSE, text |-> Untitled]

\* add_doc: the response and what the request leaves in the upload folder and
\* in the documents table.  uuid is the uuid4 value the request would draw,
\* now the clock in tenths of a second.
add_doc(up, docs, dsk, uuid, now) ==
    LET Reply(status, error, doc_id, extractor, text, docs2, dsk2) ==
            [status |-> status, error |-> error, doc_id |-> doc_id,
             extractor |-> extractor, text |-> text, documents |-> docs2,
             disk |-> dsk2]
        doc_id == Uuid(uuid)
        file_path == PathJoin(UploadFolder, doc_id)
        mtime_epoch == IntOf(now)
        saved == {f \in dsk : f.path # file_path}
                     \cup {[path |-> file_path, file |-> up.file]}
        got == get_text(file_path, up.file)
    IN IF ~up.present
       THEN Reply(400, "No file part", None, "none", None, docs, dsk)
       ELSE IF up.filename = <<>>
       THEN Reply(400, "No selected file", None, "none", None, docs, dsk)
       ELSE IF ~allowed_file(up.filename)
       THEN Reply(400, "Unsupported file type. Allowed: PDF, DOC, DOCX",
                  None, "none", None, docs, dsk)
       ELSE IF ~up.save_ok
       THEN Reply(500, "Failed to save file", Some(doc_id), "none", None, docs, dsk)
       ELSE IF got.raised
       THEN Reply(500, "Internal Server Error", Some(doc_id), got.extractor,
                  None, docs, saved)
       ELSE Reply(201, "", Some(doc_id), got.extractor, Some(got.text),
                  upsert_document(docs, doc_id, file_path, got.text,
                                  mtime_epoch * 10).documents,
                  saved)

(***************************************************************************)
(* Chunker.  The repository has no chunker: add_doc stops after            *)
(* upsert_document and nothing calls persist_chunk.  The chunks of a text  *)
(* are taken to be its paragraphs.                                         *)
(***************************************************************************)
RECURSIVE Paragraphs(_, _)
Paragraphs(text, cur) ==
    IF text = <<>> THEN (IF cur = <<>> THEN <<>> ELSE <<cur>>)
    ELSE IF Len(text) >= 2 /\ text[1] = LF /\ text[2] = LF
         THEN (IF cur = <<>> THEN <<>> ELSE <<cur>>)
              \o Paragraphs(SubSeq(text, 3, Len(text)), <<>>)
         ELSE Paragraphs(Tail(text), Append(cur, text[1]))

Chunker(text) == Paragraphs(text, <<>>)

(***************************************************************************)
(* Initial states.  Every specification below runs one part of the         *)
(* program; the variables of the other parts stay at their initial value.  *)
(***************************************************************************)
Init(part) ==
    /\ nIn \in IF part = "normalize" THEN StringsUpTo(NormAlphabet, MaxNormLen)
                ELSE {<<>>}
    /\ nOut1 = <<>>
    /\ nOut2 = <<>>
    /\ nPc = IF part = "normalize" THEN "input" ELSE "off"
    /\ pdfPages \in IF part = "pdf"
                     THEN UNION {[1..n -> SamplePages] : n \in 0..MaxPages}
                     ELSE {<<>>}
    /\ pdfIdx = 1
    /\ out_parts = <<>>
    /\ ocrCalls = <<>>
    /\ pdfRaw = <<>>
    /\ pdfResult = <<>>
    /\ pdfPc = IF part = "pdf" THEN "loop" ELSE "off"
    /\ documents = {}
    /\ chunks = {}
    /\ tokVer = TOK_VER
    /\ segVer = SEG_VER
    /\ upCall = None
    /\ lastPersist = None
    /\ memoPersist = None
    /\ disk = {}
    /\ nextUuid = 1
    /\ addLast = None
    /\ ing = [phase |-> "idle", doc_id |-> <<>>, todo |-> <<>>]
    /\ storedText = {}
    /\ calls = [c \in 1..NumConns |-> [pc |-> "idle"]]
    /\ lastReturned = {}
    /\ overlap = {}

(***************************************************************************)
(* SpecNormalize: _normalize applied twice to every bounded input          *)
(***************************************************************************)
NormalizeOnce ==
    /\ nPc = "input"
    /\ nOut1' = Normalize(nIn)
    /\ nPc' = "once"
    /\ UNCHANGED <<nIn, nOut2, varsPdf, varsDb, varsHist, varsUpload, varsIngest,
                   varsConc>>

NormalizeTwice ==
    /\ nPc = "once"
    /\ nOut2' = Normalize(nOut1)
    /\ nPc' = "twice"
    /\ UNCHANGED <<nIn, nOut1, varsPdf, varsDb, varsHist, varsUpload, varsIngest,
                   varsConc>>

NextNormalize == NormalizeOnce \/ NormalizeTwice

SpecNormalize == Init("normalize") /\ [][NextNormalize]_vars

(***************************************************************************)
(* SpecPdf: extract_pdf_text, one page of the loop per step                *)
(***************************************************************************)
\* for page in doc: ... out_parts.append(txt)
ExtractPage ==
    /\ pdfPc = "loop"
    /\ pdfIdx <= Len(pdfPages)
    /\ LET page == pdfPages[pdfIdx]
           txt == Strip(blocks_text(page))
       IN /\ ocrCalls' = IF txt = <<>> THEN Append(ocrCalls, pdfIdx) ELSE ocrCalls
          /\ out_parts' = Append(out_parts,
                                 IF txt = <<>> THEN Strip(ocr_page(page)) ELSE txt)
    /\ pdfIdx' = pdfIdx + 1
    /\ UNCHANGED <<pdfPages, pdfRaw, pdfResult, pdfPc, varsNorm, varsDb, varsHist,
                   varsUpload, varsIngest, varsConc>>

\* doc.close(); raw = sep.join(out_parts).strip(); return _normalize(raw)
ExtractFinish ==
    /\ pdfPc = "loop"
    /\ pdfIdx > Len(pdfPages)
    /\ pdfRaw' = Strip(Join(out_parts, PageSeparator))
    /\ pdfResult' = Normalize(pdfRaw')
    /\ pdfPc' = "done"
    /\ UNCHANGED <<pdfPages, pdfIdx, out_parts, ocrCalls, varsNorm, varsDb,
                   varsHist, varsUpload, varsIngest, varsConc>>

NextPdf == ExtractPage \/ ExtractFinish

SpecPdf == Init("pdf") /\ [][NextPdf]_vars

(***************************************************************************)
(* SpecDocs: sequential upsert_document calls                              *)
(***************************************************************************)
UpsertDocument ==
    \E doc_id \in DocIds, source_path \in Paths, norm_text \in DocTexts,
       mtime \in MTimes :
        LET res == upsert_document(documents, doc_id, source_path, norm_text, mtime)
        IN /\ documents' = res.documents
           /\ upCall' = Some([doc_id |-> doc_id, source_path |-> source_path,
                               norm_text |-> norm_text, mtime |-> mtime,
                               changed |-> res.changed, before |-> documents])
           /\ UNCHANGED <<chunks, tokVer, segVer, lastPersist, memoPersist,
                          varsNorm, varsPdf, varsUpload, varsIngest, varsConc>>

NextDocs == UpsertDocument

SpecDocs == Init("docs") /\ [][NextDocs]_vars

(***************************************************************************)
(* SpecChunks: sequential persist_chunk calls under TOK_VER, SEG_VER       *)
(* SpecVersions: persist_chunk calls between which TOK_VER or SEG_VER is   *)
(* incremented                                                             *)
(***************************************************************************)
\* One persist_chunk call.  The call is kept in lastPersist; memoPersist keeps
\* an arbitrary earlier call to compare it with.
PersistChunkCall(docIds, texts) ==
    \E doc_id \in docIds, text \in texts, range \in Places, keep \in BOOLEAN :
        LET res == persist_chunk(chunks, doc_id, text, range[1], range[2],
                                 range[3], tokVer, segVer)
        IN /\ chunks' = res.chunks
           /\ lastPersist' = Some([doc_id |-> doc_id, text |-> text,
                                    page_s |-> range[1],
                                    tok |-> tokVer, seg |-> segVer,
                                    chunk_id |-> res.chunk_id,
                                    chunk_hash |-> res.chunk_hash,
                                    content_hash |-> res.content_hash])
           /\ memoPersist' = IF keep \/ lastPersist = None THEN memoPersist
                              ELSE lastPersist
           /\ UNCHANGED <<documents, tokVer, segVer, upCall, varsNorm, varsPdf,
                          varsUpload, varsIngest, varsConc>>

PersistChunk == PersistChunkCall(DocIds, ChunkTexts)

NextChunks == PersistChunk

SpecChunks == Init("chunks") /\ [][NextChunks]_vars

PersistChunkVersioned ==
    PersistChunkCall({<<"d", "1">>}, {<<"a">>, <<"b">>})

\* "increment if tokenization changes"
BumpTokVer ==
    /\ tokVer < MaxVer
    /\ tokVer' = tokVer + 1
    /\ UNCHANGED <<documents, chunks, segVer, varsHist, varsNorm, varsPdf,
                   varsUpload, varsIngest, varsConc>>

\* "increment if segmentation changes"
BumpSegVer ==
    /\ segVer < MaxVer
    /\ segVer' = segVer + 1
    /\ UNCHANGED <<documents, chunks, tokVer, varsHist, varsNorm, varsPdf,
                   varsUpload, varsIngest, varsConc>>

NextVersions == PersistChunkVersioned \/ BumpTokVer \/ BumpSegVer

SpecVersions == Init("versions") /\ [][NextVersions]_vars

(***************************************************************************)
(* SpecIngest: add_doc requests, and a caller that re-ingests a document   *)
(* by composing upsert_document with one persist_chunk per chunk           *)
(***************************************************************************)
AddDoc ==
    /\ nextUuid <= MaxUploads
    /\ \E up \in Uploads, now \in Clock :
          LET res == add_doc(up, documents, disk, nextUuid, now)
          IN /\ documents' = res.documents
             /\ disk' = res.disk
             /\ nextUuid' = IF res.doc_id = None THEN nextUuid ELSE nextUuid + 1
             /\ addLast' = Some([upload |-> up, status |-> res.status,
                                  error |-> res.error, doc_id |-> res.doc_id,
                                  extractor |-> res.extractor,
                                  docsBefore |-> documents, diskBefore |-> disk,
                                  docsAfter |-> res.documents,
                                  diskAfter |-> res.disk])
             /\ storedText' =
                    IF res.status = 201
                    THEN storedText \cup {<<res.doc_id[1], res.text[1]>>}
                    ELSE storedText
    /\ UNCHANGED <<chunks, tokVer, segVer, ing, varsHist, varsNorm, varsPdf,
                   varsConc>>

\* The caller re-ingests a stored document: it runs upsert_document and,
\* when that reports a change, goes on to chunk the text.
IngestUpsert ==
    /\ ing.phase = "idle"
    /\ \E doc_id \in {r.doc_id : r \in documents}, norm_text \in IngestTexts :
          LET res == upsert_document(documents, doc_id,
                                     PathJoin(UploadFolder, doc_id), norm_text, 20)
          IN /\ documents' = res.documents
             /\ res.changed
             /\ ing' = [phase |-> "chunking", doc_id |-> doc_id,
                         todo |-> Chunker(norm_text)]
             /\ storedText' = {p \in storedText : p[1] # doc_id}
                                  \cup {<<doc_id, norm_text>>}
    /\ UNCHANGED <<chunks, tokVer, segVer, varsHist, varsUpload, varsNorm,
                   varsPdf, varsConc>>

\* The caller persists the next chunk.
IngestPersistChunk ==
    /\ ing.phase = "chunking"
    /\ ing.todo # <<>>
    /\ chunks' = persist_chunk(chunks, ing.doc_id, Head(ing.todo), 1, 1, None,
                               tokVer, segVer).chunks
    /\ ing' = [ing EXCEPT !.todo = Tail(ing.todo)]
    /\ UNCHANGED <<documents, tokVer, segVer, storedText, varsHist, varsUpload,
                   varsNorm, varsPdf, varsConc>>

\* Every chunk is persisted: the attempt is complete.
IngestDone ==
    /\ ing.phase = "chunking"
    /\ ing.todo = <<>>
    /\ ing' = [phase |-> "idle", doc_id |-> <<>>, todo |-> <<>>]
    /\ UNCHANGED <<varsDb, storedText, varsHist, varsUpload, varsNorm, varsPdf,
                   varsConc>>

\* A write fails or the process stops: the attempt is given up.
IngestFail ==
    /\ ing.phase = "chunking"
    /\ ing.todo # <<>>
    /\ ing' = [phase |-> "idle", doc_id |-> <<>>, todo |-> <<>>]
    /\ UNCHANGED <<varsDb, storedText, varsHist, varsUpload, varsNorm, varsPdf,
                   varsConc>>

NextIngest ==
    AddDoc \/ IngestUpsert \/ IngestPersistChunk \/ IngestDone \/ IngestFail

SpecIngest == Init("ingest") /\ [][NextIngest]_vars

(***************************************************************************)
(* SpecConc: upsert_document calls on NumConns connections, interleaved    *)
(* between the SELECT, the REPLACE with its commit, and the return         *)
(***************************************************************************)
InFlightOn(doc_id) ==
    {c \in 1..NumConns : calls[c].pc # "idle" /\ calls[c].doc_id = doc_id}

\* A request enters upsert_document and computes file_hash.
ConnCall(c) ==
    /\ calls[c].pc = "idle"
    /\ \E doc_id \in DocIds, norm_text \in {<<"a">>, <<"a", "a">>} :
          /\ calls' = [calls EXCEPT ![c] =
                 [pc |-> "select", doc_id |-> doc_id, norm_text |-> norm_text,
                  file_hash |-> sha256_text(norm_text)]]
          /\ overlap' = IF InFlightOn(doc_id) # {} THEN overlap \cup {doc_id}
                         ELSE overlap
    /\ UNCHANGED <<lastReturned, varsDb, varsHist, varsUpload, varsIngest,
                   varsNorm, varsPdf>>

\* cur = db.execute("SELECT ..."); row = cur.fetchone(); the comparison
ConnSelect(c) ==
    /\ calls[c].pc = "select"
    /\ calls' = [calls EXCEPT ![c].pc =
           IF NoChange(SelectFileHash(documents, calls[c].doc_id),
                       calls[c].file_hash)
           THEN "return_false" ELSE "write"]
    /\ UNCHANGED <<lastReturned, overlap, varsDb, varsHist, varsUpload,
                   varsIngest, varsNorm, varsPdf>>

\* db.execute("REPLACE INTO documents ..."); db.commit()
ConnWrite(c) ==
    /\ calls[c].pc = "write"
    /\ documents' = ReplaceIntoDocuments(documents,
           DocumentRow(calls[c].doc_id, PathJoin(UploadFolder, calls[c].doc_id),
                       calls[c].file_hash, 20))
    /\ calls' = [calls EXCEPT ![c].pc = "return_true"]
    /\ UNCHANGED <<chunks, tokVer, segVer, lastReturned, overlap, varsHist,
                   varsUpload, varsIngest, varsNorm, varsPdf>>

\* return False / return True
ConnReturn(c) ==
    /\ calls[c].pc \in {"return_false", "return_true"}
    /\ lastReturned' = {p \in lastReturned : p[1] # calls[c].doc_id}
                           \cup {<<calls[c].doc_id, calls[c].norm_text>>}
    /\ calls' = [calls EXCEPT ![c] = [pc |-> "idle"]]
    /\ UNCHANGED <<overlap, varsDb, varsHist, varsUpload, varsIngest, varsNorm,
                   varsPdf>>

NextConc ==
    \E c \in 1..NumConns :
        ConnCall(c) \/ ConnSelect(c) \/ ConnWrite(c) \/ ConnReturn(c)

SpecConc == Init("conc") /\ [][NextConc]_vars

(***************************************************************************)
(* Claims                                                                  *)
(***************************************************************************)
\* The rows doc_id had before the last upsert_document call.
RowsBefore == {r \in upCall[1].before : r.doc_id = upCall[1].doc_id}

\* C1: when upsert_document is called for a doc_id whose row already holds
\* the digest of the given text, it returns changed = false and writes
\* nothing: the table, and so the row's file_hash, source_path and
\* modified_at, is what it was, whatever source_path and mtime were passed.
C1_SameHashIsNoOp ==
    upCall # None =>
        ((\E r \in RowsBefore : r.file_hash = sha256_text(upCall[1].norm_text))
            => /\ upCall[1].changed = FALSE
               /\ documents = upCall[1].before)

C1_Witness ==
    /\ upCall # None
    /\ upCall[1].changed = FALSE
    /\ \E r \in RowsBefore :
          /\ r.file_hash = sha256_text(upCall[1].norm_text)
          /\ r.source_path # upCall[1].source_path
          /\ r.modified_at # IntOf(upCall[1].mtime)
          /\ r \in documents

\* C2: when the digest of the given text differs from the stored file_hash
\* of doc_id, or doc_id has no row, upsert_document returns changed = true
\* and replaces the row: the stored file_hash is the digest of the new text
\* and differs from the previous one.  So after any series of sequential
\* calls the file_hash of a doc_id is the digest of the text of the most
\* recent call on it.
C2_ChangedHashReplacesRow ==
    upCall # None =>
        LET c == upCall[1]
            h == sha256_text(c.norm_text)
            now == {r \in documents : r.doc_id = c.doc_id}
        IN /\ (\A r \in RowsBefore : r.file_hash # h) =>
                  /\ c.changed = TRUE
                  /\ now = {[doc_id |-> c.doc_id, source_path |-> c.source_path,
                             title |-> None, file_hash |-> h,
                             modified_at |-> IntOf(c.mtime)]}
                  /\ documents \ now = c.before \ RowsBefore
           /\ Cardinality(now) = 1
           /\ \A r \in now : r.file_hash = h

C2_Witness ==
    /\ upCall # None
    /\ upCall[1].changed = TRUE
    /\ RowsBefore # {}
    /\ \A r \in RowsBefore : r.file_hash # sha256_text(upCall[1].norm_text)
    /\ \E r \in documents :
          r.doc_id = upCall[1].doc_id /\ r.file_hash = sha256_text(upCall[1].norm_text)

\* C3: persist_chunk is content-addressed and idempotent: two calls with the
\* same (doc_id, text) return the same chunk_id, which is doc_id, a colon and
\* the first digits of chunk_hash; and the chunks table never holds two rows
\* with the same (doc_id, chunk_hash), so a text that occurs twice in a
\* document is stored once.
C3_ChunkIdentityStable ==
    /\ \A r1, r2 \in chunks :
          (r1.doc_id = r2.doc_id /\ r1.chunk_hash = r2.chunk_hash) => r1 = r2
    /\ \A r1, r2 \in chunks : r1.chunk_id = r2.chunk_id => r1 = r2
    /\ lastPersist # None =>
          /\ lastPersist[1].chunk_id =
                 lastPersist[1].doc_id \o <<":">>
                 \o SubSeq(sha256_text(lastPersist[1].text), 1, PrefixLen)
          /\ \E r \in chunks : /\ r.chunk_id = lastPersist[1].chunk_id
                                /\ r.doc_id = lastPersist[1].doc_id
                                /\ r.text = lastPersist[1].text
                                /\ r.page_start = lastPersist[1].page_s
    /\ (lastPersist # None /\ memoPersist # None) =>
          ((/\ lastPersist[1].doc_id = memoPersist[1].doc_id
            /\ lastPersist[1].text = memoPersist[1].text)
              => lastPersist[1].chunk_id = memoPersist[1].chunk_id)

C3_Witness ==
    /\ lastPersist # None
    /\ memoPersist # None
    /\ lastPersist[1].doc_id = memoPersist[1].doc_id
    /\ lastPersist[1].text = memoPersist[1].text
    /\ lastPersist[1].page_s # memoPersist[1].page_s
    /\ lastPersist[1].chunk_id = memoPersist[1].chunk_id
    /\ Cardinality({r \in chunks : /\ r.doc_id = lastPersist[1].doc_id
                                   /\ r.text = lastPersist[1].text}) = 1
    /\ Cardinality(chunks) >= 3

\* C4: two persist_chunk calls on the same text under different TOK_VER or
\* SEG_VER values produce the same chunk_hash, the digest of the text alone,
\* and different content_hash values, each the digest of the text followed
\* by "|tok=<TOK_VER>|seg=<SEG_VER>"; under equal versions the content_hash
\* is equal too.
C4_VersionSensitiveContentHash ==
    /\ lastPersist # None =>
          LET c == lastPersist[1]
          IN /\ c.chunk_hash = sha256_text(c.text)
             /\ c.content_hash =
                    sha256_text(c.text \o <<"|", "t", "o", "k", "=">>
                                \o DecimalStr(c.tok)
                                \o <<"|", "s", "e", "g", "=">>
                                \o DecimalStr(c.seg))
    /\ (lastPersist # None /\ memoPersist # None) =>
          LET c == lastPersist[1]
              m == memoPersist[1]
          IN c.text = m.text =>
                /\ c.chunk_hash = m.chunk_hash
                /\ (c.tok # m.tok \/ c.seg # m.seg) => c.content_hash # m.content_hash
                /\ (c.tok = m.tok /\ c.seg = m.seg) => c.content_hash = m.content_hash

C4_Witness ==
    /\ lastPersist # None
    /\ memoPersist # None
    /\ lastPersist[1].text = memoPersist[1].text
    /\ lastPersist[1].tok = memoPersist[1].tok
    /\ lastPersist[1].seg # memoPersist[1].seg
    /\ lastPersist[1].chunk_hash = memoPersist[1].chunk_hash
    /\ lastPersist[1].content_hash # memoPersist[1].content_hash

\* C7: normalize is idempotent: normalize(normalize(s)) = normalize(s) for
\* every input string s.
C7_NormalizeIdempotent == nPc = "twice" => nOut2 = nOut1

\* The pages whose layout-extracted text layer is empty, in page order.
RECURSIVE EmptyLayerPages(_, _)
EmptyLayerPages(pages, i) ==
    IF i > Len(pages) THEN <<>>
    ELSE (IF blocks_text(pages[i]) = <<>> THEN <<i>> ELSE <<>>)
         \o EmptyLayerPages(pages, i + 1)

\* C8: extract_pdf_text takes the pages in source order, runs the OCR fallback
\* for exactly the pages whose text layer is empty, and returns the
\* normalisation of all n per-page outputs joined by the page separator, so
\* that all n-1 page boundaries are in the text handed to the Normalizer.
C8_PdfJoinedAndNormalizedOnce ==
    pdfPc = "done" =>
        /\ ocrCalls = EmptyLayerPages(pdfPages, 1)
        /\ Len(out_parts) = Len(pdfPages)
        /\ pdfRaw = Join(out_parts, PageSeparator)
        /\ pdfResult = Normalize(Join(out_parts, PageSeparator))

\* C5: the re-ingestion of a document is atomic in the store: in every
\* reachable state, also after an attempt failed or stopped once
\* upsert_document had run, a committed documents row with a file_hash has
\* all the chunks of that version persisted.
C5_DocumentNeverWithoutChunks ==
    \A p \in storedText :
        (\E r \in documents : r.doc_id = p[1] /\ r.file_hash = sha256_text(p[2]))
            => \A i \in 1..Len(Chunker(p[2])) :
                  \E r \in chunks : /\ r.doc_id = p[1]
                                    /\ r.chunk_hash = sha256_text(Chunker(p[2])[i])

\* The extension of a filename that holds a dot, in lower case.
ExtOf(filename) == LowerStr(RSplitExt(filename))
HasDot(filename) == \E i \in 1..Len(filename) : filename[i] = "."

\* C6: for an upload add_doc accepts under a .pdf or .docx filename, the
\* extractor of that format is run on the stored file and the documents row
\* written has the digest of the normalized extracted text as file_hash.
C6_FileHashIsDigestOfExtractedText ==
    addLast # None =>
        LET a == addLast[1]
            f == a.upload.file
            isPdf == ExtOf(a.upload.filename) = <<"p", "d", "f">>
            isDocx == ExtOf(a.upload.filename) = <<"d", "o", "c", "x">>
        IN (/\ a.status = 201
            /\ HasDot(a.upload.filename)
            /\ \/ isPdf /\ f.kind = "pdf"
               \/ isDocx /\ f.kind = "docx")
           => /\ a.extractor = f.kind
              /\ \E r \in a.docsAfter :
                    /\ r.doc_id = a.doc_id[1]
                    /\ r.file_hash =
                          sha256_text(IF isPdf THEN extract_pdf_text(f.pages)
                                      ELSE extract_docx_text(f.paragraphs))

\* C9: add_doc rejects an upload of unsupported format at once, before the
\* file is saved, before any extraction and before any documents row is
\* written: a filename without extension, an extension outside the accepted
\* set, and a legacy binary .doc file, for which no text extraction exists.
C9_UnsupportedFormatRejectedFirst ==
    addLast # None =>
        LET a == addLast[1]
            name == a.upload.filename
        IN (/\ a.upload.present
            /\ name # <<>>
            /\ \/ ~HasDot(name)
               \/ ExtOf(name) \notin {<<"p", "d", "f">>, <<"d", "o", "c", "x">>})
           => /\ a.status = 400
              /\ a.extractor = "none"
              /\ a.diskAfter = a.diskBefore
              /\ a.docsAfter = a.docsBefore

\* The text of the call that returned last on doc_id, when no call on it is
\* in flight, is not the text whose digest is stored.
Regressed(doc_id) ==
    /\ InFlightOn(doc_id) = {}
    /\ \E p \in lastReturned :
          /\ p[1] = doc_id
          /\ \A r \in documents :
                r.doc_id = doc_id => r.file_hash # sha256_text(p[2])

\* C10: last writer wins per doc_id needs mutual exclusion.  While the calls
\* on a doc_id never overlap, the stored file_hash is the digest of the text
\* of the call that returned last; a state where it is not (the document
\* regressed to a stale hash) is reached only by calls that overlapped, and
\* such a state is reachable (C10_Witness).
C10_RegressionOnlyByOverlap ==
    \A doc_id \in DocIds : Regressed(doc_id) => doc_id \in overlap

C10_Witness ==
    \E doc_id \in DocIds :
        /\ Regressed(doc_id)
        /\ doc_id \in overlap
        /\ \A c \in 1..NumConns : calls[c].pc = "idle"
        /\ \E r \in documents : r.doc_id = doc_id

=============================================================================
